---- MODULE Spec2Model ----
(***************************************************************************)
(* A model of foxtrot's Hull (src/src/hull.rs): the bucketed circular      *)
(* doubly-linked list of hull points, indexed by PointIndex.               *)
(*                                                                         *)
(* The state is the struct Hull { buckets, data } plus the caller's side:   *)
(* `status` (is the program still running, has it panicked, or is it stuck *)
(* in a loop that never ends), `last` (the most recent call and what it    *)
(* returned), `booted` (insert_first has been called) and `misused` (the   *)
(* caller has made a call outside its precondition).                       *)
(***************************************************************************)
EXTENDS Integers, Sequences, FiniteSets

VARIABLES buckets, data, status, last, booted, misused

vars == <<buckets, data, status, last, booted, misused>>

(***************************************************************************)
(* Bounds.  The source has N = 1 << 10 buckets and any number of points;   *)
(* the model scales both down so that several points share one bucket, as  *)
(* they do in the source once there are more than 1024 points.             *)
(***************************************************************************)
NPts == 3

N == 2

Points == 0 .. (NPts - 1)

\* EdgeIndex values handed in by the caller
Edges == {1, 2}

\* const EMPTY: PointIndex = PointIndex(std::usize::MAX): an index outside data
EMPTY == 2147483647

\* EdgeIndex::default(), the handle of a node that was never given an edge
DefaultEdge == 0

\* The hull as one value, as the methods take &self
Self == [buckets |-> buckets, data |-> data]

(***************************************************************************)
(* Hull::new: rank the points by pseudo-angle.  `angle` is the vector of   *)
(* pseudo-angles of pts (the predicate itself is an external function);    *)
(* the construction inputs are drawn from AngleInputs.                     *)
(***************************************************************************)
AngleInputs ==
    { [i \in Points |-> 10 * i + 5],
      [i \in Points |-> 10 * (NPts - i)],
      [i \in Points |-> 10 * ((i + 1) % NPts) + 3] }

new(angle) ==
    [buckets |-> [b \in 0 .. (N - 1) |-> EMPTY],
     data    |-> [i \in Points |->
                    [order |-> Cardinality({k \in Points : angle[k] < angle[i]}),
                     edge  |-> DefaultEdge,
                     prev  |-> EMPTY,
                     next  |-> EMPTY]]]

\* bucket with the divisor one short of the point count
bucket_short(h, p) ==
    (h.data[p].order * N) \div (Cardinality(DOMAIN h.data) - 1)

\* fn bucket(&self, p): (order * buckets.len()) / data.len()
bucket(h, p) ==
    (h.data[p].order * N) \div Cardinality(DOMAIN h.data)

\* The outcome of a call: the hull it leaves and how the call ended
Res(b, d, st) == [buckets |-> b, data |-> d, st |-> st]

(***************************************************************************)
(* Hull::get.  Both loops run over a hull that does not change, so either  *)
(* loop diverges exactly when its loop variable repeats; an index equal to *)
(* EMPTY is out of bounds of data and panics.                              *)
(***************************************************************************)
RECURSIVE get_scan(_, _, _)
get_scan(h, t, fuel) ==
    IF h.buckets[t] # EMPTY THEN [st |-> "ok", v |-> h.buckets[t]]
    ELSE IF fuel = 0 THEN [st |-> "hang", v |-> EMPTY]
    ELSE get_scan(h, (t + 1) % N, fuel - 1)

\* the walk of get without the test that next is still in p's bucket
get_walk_nobucket(h, p, b, next, seen) ==
    IF next \notin DOMAIN h.data THEN [st |-> "panic", v |-> EMPTY]
    ELSE IF h.data[next].order < h.data[p].order
         THEN [st |-> "hang", v |-> EMPTY]
         ELSE [st |-> "ok", v |-> next]

RECURSIVE get_walk(_, _, _, _, _)
get_walk(h, p, b, next, seen) ==
    IF next \notin DOMAIN h.data THEN [st |-> "panic", v |-> EMPTY]
    ELSE IF h.data[next].order < h.data[p].order /\ bucket(h, next) = b
         THEN IF next \in seen THEN [st |-> "hang", v |-> EMPTY]
              ELSE get_walk(h, p, b, h.data[next].next, seen \cup {next})
         ELSE [st |-> "ok", v |-> next]

get(h, p) ==
    LET b == bucket(h, p)
        n == IF h.buckets[b] = EMPTY
             THEN get_scan(h, b, N - 1)
             ELSE get_walk(h, p, b, h.buckets[b], {})
    IN  IF n.st # "ok" THEN [st |-> n.st, prev |-> EMPTY, next |-> EMPTY]
        ELSE IF n.v \notin DOMAIN h.data
             THEN [st |-> "panic", prev |-> EMPTY, next |-> EMPTY]
             ELSE [st |-> "ok", prev |-> h.data[n.v].prev, next |-> n.v]

(***************************************************************************)
(* The mutating methods, as functions from the hull to the outcome of the  *)
(* call.  Writes are applied in the order of the source, so a call that    *)
(* panics half way leaves the writes it had already made.                  *)
(***************************************************************************)
insert_first(h, p, e) ==
    LET b == bucket(h, p) IN
    IF h.buckets[b] # EMPTY THEN Res(h.buckets, h.data, "panic")
    ELSE Res([h.buckets EXCEPT ![b] = p],
             [h.data EXCEPT ![p].next = p, ![p].prev = p, ![p].edge = e],
             "ok")

\* update that stores the edge in the node after p
update_next(h, p, e) ==
    IF h.data[p].next = EMPTY THEN Res(h.buckets, h.data, "panic")
    ELSE Res(h.buckets, [h.data EXCEPT ![h.data[p].next].edge = e], "ok")

update(h, p, e) ==
    IF h.data[p].next = EMPTY THEN Res(h.buckets, h.data, "panic")
    ELSE Res(h.buckets, [h.data EXCEPT ![p].edge = e], "ok")

\* edge without the assertion of its first line
edge_unchecked(h, p) ==
    [st |-> "ok", ret |-> <<h.data[p].edge>>]

\* the result of a query: how it ended and the value it returned
edge(h, p) ==
    IF h.data[p].next = EMPTY THEN [st |-> "panic", ret |-> <<>>]
    ELSE [st |-> "ok", ret |-> <<h.data[p].edge>>]

get_edge(h, p) ==
    LET g == get(h, p) IN
    IF g.st # "ok" THEN [st |-> g.st, ret |-> <<>>]
    ELSE IF g.prev \notin DOMAIN h.data THEN [st |-> "panic", ret |-> <<>>]
    ELSE [st |-> "ok", ret |-> <<h.data[g.prev].edge>>]

\* insert_head that fills an empty bucket only
insert_head_emptyonly(h, p, b, next) ==
    IF h.buckets[b] = EMPTY
    THEN [h.buckets EXCEPT ![b] = p]
    ELSE h.buckets

\* lines 150-154 of insert: p becomes the head of its bucket
insert_head(h, p, b, next) ==
    IF h.buckets[b] = EMPTY \/ h.buckets[b] = next
    THEN [h.buckets EXCEPT ![b] = p]
    ELSE h.buckets

\* insert_link with p's own prev and next written the wrong way round
insert_link_swapped(bk, d, p, e, prev, next) ==
    LET d1 == [d EXCEPT ![p].edge = e, ![p].next = prev, ![p].prev = next] IN
    IF next \notin DOMAIN d THEN Res(bk, d1, "panic")
    ELSE LET d2 == [d1 EXCEPT ![next].prev = p] IN
         IF prev \notin DOMAIN d THEN Res(bk, d2, "panic")
         ELSE Res(bk, [d2 EXCEPT ![prev].next = p], "ok")

\* lines 156-163 of insert: write p's node, then stitch it into the list
insert_link(bk, d, p, e, prev, next) ==
    LET d1 == [d EXCEPT ![p].edge = e, ![p].next = next, ![p].prev = prev] IN
    IF next \notin DOMAIN d THEN Res(bk, d1, "panic")
    ELSE LET d2 == [d1 EXCEPT ![next].prev = p] IN
         IF prev \notin DOMAIN d THEN Res(bk, d2, "panic")
         ELSE Res(bk, [d2 EXCEPT ![prev].next = p], "ok")

\* insert without the assertion of its first line
insert_unchecked(h, p, e) ==
    LET b == bucket(h, p)
        g == get(h, p)
    IN  IF g.st # "ok" THEN Res(h.buckets, h.data, g.st)
        ELSE insert_link(insert_head(h, p, b, g.next), h.data, p, e,
                         g.prev, g.next)

insert(h, p, e) ==
    IF h.data[p].next # EMPTY THEN Res(h.buckets, h.data, "panic")
    ELSE LET b == bucket(h, p)
             g == get(h, p)
         IN  IF g.st # "ok" THEN Res(h.buckets, h.data, g.st)
             ELSE insert_link(insert_head(h, p, b, g.next), h.data, p, e,
                              g.prev, g.next)

\* erase_unlink that leaves p's own prev as it was
erase_unlink_keepprev(d, p, prev, next) ==
    IF next \notin DOMAIN d THEN [st |-> "panic", data |-> d]
    ELSE LET d1 == [d EXCEPT ![next].prev = prev] IN
         IF prev \notin DOMAIN d THEN [st |-> "panic", data |-> d1]
         ELSE LET d2 == [d1 EXCEPT ![prev].next = next] IN
              [st |-> "ok", data |-> [d2 EXCEPT ![p].next = EMPTY]]

\* erase_unlink without the write of data[prev].next
erase_unlink_half(d, p, prev, next) ==
    IF next \notin DOMAIN d THEN [st |-> "panic", data |-> d]
    ELSE LET d1 == [d EXCEPT ![next].prev = prev] IN
         IF prev \notin DOMAIN d THEN [st |-> "panic", data |-> d1]
         ELSE [st |-> "ok",
               data |-> [d1 EXCEPT ![p].next = EMPTY, ![p].prev = EMPTY]]

\* lines 173-177 of erase: cut the node out of the linked list
\* the unlinking of erase, taking a point without links as already unlinked
erase_unlink_lenient(d, p, prev, next) ==
    IF next \notin DOMAIN d \/ prev \notin DOMAIN d THEN [st |-> "ok", data |-> d]
    ELSE [st |-> "ok",
          data |-> [d EXCEPT ![next].prev = prev, ![prev].next = next,
                             ![p].next = EMPTY, ![p].prev = EMPTY]]

\* the unlinking of erase, also forgetting p's edge handle
erase_unlink_wipe(d, p, prev, next) ==
    IF next \notin DOMAIN d THEN [st |-> "panic", data |-> d]
    ELSE LET d1 == [d EXCEPT ![next].prev = prev] IN
         IF prev \notin DOMAIN d THEN [st |-> "panic", data |-> d1]
         ELSE LET d2 == [d1 EXCEPT ![prev].next = next] IN
              [st |-> "ok",
               data |-> [d2 EXCEPT ![p].next = EMPTY, ![p].prev = EMPTY,
                                   ![p].edge = DefaultEdge]]

erase_unlink(d, p, prev, next) ==
    IF next \notin DOMAIN d THEN [st |-> "panic", data |-> d]
    ELSE LET d1 == [d EXCEPT ![next].prev = prev] IN
         IF prev \notin DOMAIN d THEN [st |-> "panic", data |-> d1]
         ELSE LET d2 == [d1 EXCEPT ![prev].next = next] IN
              [st |-> "ok",
               data |-> [d2 EXCEPT ![p].next = EMPTY, ![p].prev = EMPTY]]

\* lines 179-188 of erase: replace the head of the bucket
erase_head(h, p, b, next) ==
    IF h.buckets[b] = p
    THEN IF bucket(h, next) = b
         THEN [h.buckets EXCEPT ![b] = next]
         ELSE [h.buckets EXCEPT ![b] = EMPTY]
    ELSE h.buckets

erase(h, p) ==
    LET b    == bucket(h, p)
        next == h.data[p].next
        prev == h.data[p].prev
        u    == erase_unlink(h.data, p, prev, next)
    IN  IF u.st # "ok" THEN Res(h.buckets, u.data, u.st)
        ELSE Res(erase_head(h, p, b, next), u.data, "ok")

\* the entry of the last bucket that is not empty, in place of the first
first_bucket_last(h) ==
    LET full == {b \in DOMAIN h.buckets : h.buckets[b] # EMPTY} IN
    IF full = {} THEN EMPTY
    ELSE h.buckets[CHOOSE b \in full : \A c \in full : c <= b]

(***************************************************************************)
(* Hull::values, drained to the end by the caller.  The closure's state is *)
(* (point, started); the hull does not change while it runs, so it never   *)
(* ends exactly when a point other than start is visited twice.            *)
(***************************************************************************)
first_bucket(h) ==
    LET full == {b \in DOMAIN h.buckets : h.buckets[b] # EMPTY} IN
    IF full = {} THEN EMPTY
    ELSE h.buckets[CHOOSE b \in full : \A c \in full : b <= c]

\* the closure of values without its `started` flag
values_walk_nostart(h, point, start, started, out, seen) ==
    IF point = start THEN [st |-> "ok", ret |-> out]
    ELSE [st |-> "panic", ret |-> out]

RECURSIVE values_walk(_, _, _, _, _, _)
values_walk(h, point, start, started, out, seen) ==
    IF point = start /\ started THEN [st |-> "ok", ret |-> out]
    ELSE IF point \notin DOMAIN h.data THEN [st |-> "panic", ret |-> out]
    ELSE IF point \in seen THEN [st |-> "hang", ret |-> out]
    ELSE values_walk(h, h.data[point].next, start, TRUE,
                     Append(out, h.data[point].edge), seen \cup {point})

values(h) ==
    IF first_bucket(h) = EMPTY THEN [st |-> "panic", ret |-> <<>>]
    ELSE values_walk(h, first_bucket(h), first_bucket(h), FALSE, <<>>, {})

(***************************************************************************)
(* The state machine: one action per public method.  A call is made only   *)
(* while the program is running; a call that panics or never returns ends  *)
(* the run.                                                                *)
(***************************************************************************)
Live == {p \in Points : data[p].next # EMPTY}

Called(op, p, e, ret) == [op |-> op, p |-> p, e |-> e, ret |-> ret]

Init ==
    /\ \E angle \in AngleInputs :
          /\ buckets = new(angle).buckets
          /\ data = new(angle).data
    /\ status = "ok"
    /\ last = Called("new", EMPTY, DefaultEdge, <<>>)
    /\ booted = FALSE
    /\ misused = FALSE

\* a mutating call: the hull becomes what the method leaves
Mutate(r, call) ==
    /\ status = "ok"
    /\ buckets' = r.buckets
    /\ data' = r.data
    /\ status' = r.st
    /\ last' = call

\* a call on &self: the hull is left alone
Query(r, call) ==
    /\ status = "ok"
    /\ status' = r.st
    /\ last' = call
    /\ UNCHANGED <<buckets, data, booted>>

InsertFirst(p, e) ==
    /\ Mutate(insert_first(Self, p, e), Called("insert_first", p, e, <<>>))
    /\ booted' = TRUE

Insert(p, e) ==
    /\ Mutate(insert(Self, p, e), Called("insert", p, e, <<>>))
    /\ UNCHANGED booted

Erase(p) ==
    /\ Mutate(erase(Self, p), Called("erase", p, DefaultEdge, <<>>))
    /\ UNCHANGED booted

Update(p, e) ==
    /\ Mutate(update(Self, p, e), Called("update", p, e, <<>>))
    /\ UNCHANGED booted

Get(p) ==
    LET g == get(Self, p) IN
    Query(g, Called("get", p, DefaultEdge,
                    IF g.st = "ok" THEN <<g.prev, g.next>> ELSE <<>>))

GetEdge(p) ==
    Query(get_edge(Self, p),
          Called("get_edge", p, DefaultEdge, get_edge(Self, p).ret))

EdgeOf(p) ==
    Query(edge(Self, p), Called("edge", p, DefaultEdge, edge(Self, p).ret))

Values ==
    Query(values(Self), Called("values", EMPTY, DefaultEdge, values(Self).ret))

(***************************************************************************)
(* Spec: a caller that keeps to the stated preconditions: insert_first     *)
(* once, on the fresh hull; insert on a point that is not live; erase,     *)
(* update and edge on a live point; get, get_edge and values while some    *)
(* point is live.                                                          *)
(***************************************************************************)
CallInsertFirst ==
    \E p \in Points, e \in Edges :
        ~booted /\ InsertFirst(p, e) /\ UNCHANGED misused

CallInsert ==
    \E p \in Points \ Live, e \in Edges :
        booted /\ Insert(p, e) /\ UNCHANGED misused

CallErase ==
    \E p \in Live : Erase(p) /\ UNCHANGED misused

CallUpdate ==
    \E p \in Live, e \in Edges : Update(p, e) /\ UNCHANGED misused

CallGet ==
    \E p \in Points \ Live : Live # {} /\ Get(p) /\ UNCHANGED misused

CallGetEdge ==
    \E p \in Points \ Live : Live # {} /\ GetEdge(p) /\ UNCHANGED misused

CallEdge ==
    \E p \in Live : EdgeOf(p) /\ UNCHANGED misused

CallValues ==
    Live # {} /\ Values /\ UNCHANGED misused

Next ==
    \/ CallInsertFirst
    \/ CallInsert
    \/ CallErase
    \/ CallUpdate
    \/ CallGet
    \/ CallGetEdge
    \/ CallEdge
    \/ CallValues

Spec == Init /\ [][Next]_vars

(***************************************************************************)
(* SpecBuild: the caller of the test circular_hull: insert_first on one    *)
(* point, then insert on the others in any order; values at any time.      *)
(***************************************************************************)
NextBuild ==
    \/ CallInsertFirst
    \/ CallInsert
    \/ CallValues

SpecBuild == Init /\ [][NextBuild]_vars

(***************************************************************************)
(* SpecLocate: get and get_edge as functions of the hull, applied to every *)
(* hull in which the points of a set S are linked into one cycle sorted by *)
(* order and every bucket that holds a point of S has some point of S in   *)
(* that bucket as its entry, the lowest or another.  The methods leave     *)
(* only the hulls among these whose entries are the lowest.                *)
(***************************************************************************)
\* the point of S that follows p round the circle of order ranks
SuccIn(h, S, p) ==
    LET o(q)  == h.data[q].order
        above == {q \in S : o(q) > o(p)}
    IN  IF above # {}
        THEN CHOOSE q \in above : \A r \in above : o(q) <= o(r)
        ELSE CHOOSE q \in S : \A r \in S : o(q) <= o(r)

\* the point of S that precedes p round the circle of order ranks
PredIn(h, S, p) ==
    LET o(q)  == h.data[q].order
        below == {q \in S : o(q) < o(p)}
    IN  IF below # {}
        THEN CHOOSE q \in below : \A r \in below : o(r) <= o(q)
        ELSE CHOOSE q \in S : \A r \in S : o(r) <= o(q)

InitLocate ==
    \E angle \in AngleInputs, S \in (SUBSET Points) \ {{}},
       ed \in [Points -> Edges], hd \in [0 .. (N - 1) -> Points \cup {EMPTY}] :
        LET h == new(angle) IN
        /\ \A b \in 0 .. (N - 1) :
              IF \E q \in S : bucket(h, q) = b
              THEN hd[b] \in S /\ bucket(h, hd[b]) = b
              ELSE hd[b] = EMPTY
        /\ buckets = hd
        /\ data = [p \in Points |->
                     IF p \in S
                     THEN [order |-> h.data[p].order,
                           edge  |-> ed[p],
                           prev  |-> PredIn(h, S, p),
                           next  |-> SuccIn(h, S, p)]
                     ELSE h.data[p]]
        /\ status = "ok"
        /\ last = Called("new", EMPTY, DefaultEdge, <<>>)
        /\ booted = TRUE
        /\ misused = FALSE

NextLocate ==
    \/ CallGet
    \/ CallGetEdge

SpecLocate == InitLocate /\ [][NextLocate]_vars

(***************************************************************************)
(* SpecAny: a caller that may also make one call outside its precondition  *)
(* (a second insert_first, insert on a live point, erase, update or edge   *)
(* on a point that is not live, a query on an empty hull).  If that call   *)
(* returns, the caller goes on as before.                                  *)
(***************************************************************************)
MisInsertFirst ==
    \E p \in Points, e \in Edges :
        ~misused /\ booted /\ InsertFirst(p, e) /\ misused' = TRUE

MisInsert ==
    \E p \in Points, e \in Edges :
        ~misused /\ (p \in Live \/ ~booted) /\ Insert(p, e) /\ misused' = TRUE

MisErase ==
    \E p \in Points \ Live : ~misused /\ Erase(p) /\ misused' = TRUE

MisUpdate ==
    \E p \in Points \ Live, e \in Edges :
        ~misused /\ Update(p, e) /\ misused' = TRUE

MisGet ==
    \E p \in Points :
        ~misused /\ (p \in Live \/ Live = {}) /\ Get(p) /\ misused' = TRUE

MisGetEdge ==
    \E p \in Points :
        ~misused /\ (p \in Live \/ Live = {}) /\ GetEdge(p) /\ misused' = TRUE

MisEdge ==
    \E p \in Points \ Live : ~misused /\ EdgeOf(p) /\ misused' = TRUE

MisValues ==
    ~misused /\ Live = {} /\ Values /\ misused' = TRUE

NextAny ==
    \/ Next
    \/ MisInsertFirst
    \/ MisInsert
    \/ MisErase
    \/ MisUpdate
    \/ MisGet
    \/ MisGetEdge
    \/ MisEdge
    \/ MisValues

SpecAny == Init /\ [][NextAny]_vars

(***************************************************************************)
(* What the claims speak of.                                               *)
(***************************************************************************)
order(p) == data[p].order

\* the live point of lowest and of highest order
LowestLive == CHOOSE m \in Live : \A q \in Live : order(m) <= order(q)

HighestLive == CHOOSE m \in Live : \A q \in Live : order(q) <= order(m)

\* the live point that follows order rank o around the circle
LiveAfter(o) ==
    IF \E q \in Live : order(q) > o
    THEN CHOOSE q \in Live :
            order(q) > o /\ \A r \in Live : order(r) > o => order(q) <= order(r)
    ELSE LowestLive

\* the live point that precedes order rank o around the circle
LiveBefore(o) ==
    IF \E q \in Live : order(q) < o
    THEN CHOOSE q \in Live :
            order(q) < o /\ \A r \in Live : order(r) < o => order(r) <= order(q)
    ELSE HighestLive

\* (prev, next) brackets p's order, modulo the wraparound
Brackets(p, prev, next) ==
    \/ order(prev) < order(p) /\ order(p) < order(next)
    \/ /\ \/ \A q \in Live : order(p) < order(q)
          \/ \A q \in Live : order(q) < order(p)
       /\ prev = HighestLive
       /\ next = LowestLive

(***************************************************************************)
(* C1  Locate correctness: while some point is live, get(p) of every point *)
(* p that is not live returns a pair (prev, next) of live points with      *)
(* data[prev].next = next whose orders bracket p's, modulo the wraparound. *)
(* The code does not: see C2, get(p) never returns when every live point   *)
(* lies in p's bucket below p.                                             *)
(***************************************************************************)
C1_LocateCorrect ==
    (status = "ok" /\ Live # {}) =>
        \A p \in Points \ Live :
            LET g == get(Self, p) IN
            /\ g.st = "ok"
            /\ g.prev \in Live
            /\ g.next \in Live
            /\ data[g.prev].next = g.next
            /\ Brackets(p, g.prev, g.next)

\* what does hold: whenever get returns, the pair it returns is the right one
C1_LocateCorrectIfReturns ==
    (status = "ok" /\ Live # {}) =>
        \A p \in Points \ Live :
            LET g == get(Self, p) IN
            g.st = "ok" =>
                /\ g.prev = LiveBefore(order(p))
                /\ g.next = LiveAfter(order(p))
                /\ data[g.prev].next = g.next
                /\ Brackets(p, g.prev, g.next)

(***************************************************************************)
(* C2  Termination: while some point is live, a get, get_edge or insert of *)
(* a point that is not live returns; it never loops for ever.              *)
(* The code does not: the walk along the bucket's chain goes round the     *)
(* whole cycle again and again when every live point is in p's bucket and  *)
(* has a lower order than p.                                               *)
(***************************************************************************)
C2_Terminates ==
    (Live # {} /\ last.op \in {"get", "get_edge", "insert"}) => status # "hang"

\* the points reached from x by following next k times (x first)
RECURSIVE NextPath(_, _)
NextPath(x, k) ==
    IF k = 0 THEN <<>>
    ELSE <<x>> \o (IF x \in Points THEN NextPath(data[x].next, k - 1) ELSE <<>>)

\* the points that are linked at all
Linked == {p \in Points : data[p].next # EMPTY \/ data[p].prev # EMPTY}

(***************************************************************************)
(* C3  Sorted single cycle: after insert_first and any insert/erase calls  *)
(* that returned, the points whose prev/next are not EMPTY (if any) form   *)
(* one cycle under next; following next from the live point of lowest      *)
(* order visits every live point once, in strictly increasing order, and   *)
(* the live point of highest order links back to the lowest.               *)
(***************************************************************************)
C3_SortedSingleCycle ==
    (status = "ok" /\ Linked # {}) =>
        LET n    == Cardinality(Linked)
            path == NextPath(LowestLive, n)
        IN  /\ Linked = Live
            /\ Len(path) = n
            /\ {path[i] : i \in 1 .. n} = Live
            /\ \A i \in 1 .. (n - 1) : order(path[i]) < order(path[i + 1])
            /\ path[n] = HighestLive
            /\ data[path[n]].next = LowestLive

\* C3 is seen at work: two live points in one bucket, left by an erase
C3_Witness ==
    /\ status = "ok"
    /\ Cardinality(Live) >= 2
    /\ last.op = "erase"
    /\ \E b \in DOMAIN buckets : Cardinality({p \in Live : bucket(Self, p) = b}) >= 2

(***************************************************************************)
(* C4  Cycle integrity: after any insert/erase calls that returned, every  *)
(* live x has data[data[x].next].prev = x and data[data[x].prev].next = x, *)
(* a point has prev = EMPTY exactly when it has next = EMPTY, and walking  *)
(* next from a live point comes back to it after exactly |Live| steps and  *)
(* not before.                                                             *)
(***************************************************************************)
C4_CycleIntegrity ==
    status = "ok" =>
        /\ \A p \in Points : (data[p].prev = EMPTY) <=> (data[p].next = EMPTY)
        /\ \A x \in Live :
              /\ data[x].next \in Points
              /\ data[x].prev \in Points
              /\ data[data[x].next].prev = x
              /\ data[data[x].prev].next = x
        /\ \A x \in Live :
              LET n    == Cardinality(Live)
                  path == NextPath(x, n + 1)
              IN  /\ Len(path) = n + 1
                  /\ path[n + 1] = x
                  /\ \A i \in 2 .. n : path[i] # x

\* C4 is seen at work: a cycle of at least two points that an insert has
\* just grown, after an erase somewhere before (some dead point has an edge)
C4_Witness ==
    /\ status = "ok"
    /\ last.op = "insert"
    /\ Cardinality(Live) >= 2
    /\ \E p \in Points \ Live : data[p].edge # DefaultEdge

\* the point of order rank o
PointOfOrder(o) == CHOOSE p \in Points : order(p) = o

\* the edges of all points, in the sequence of their order ranks
SortedEdges == [i \in 1 .. NPts |-> data[PointOfOrder(i - 1)].edge]

\* seq is SortedEdges read round the circle from some starting point
IsRotationOfSorted(seq) ==
    /\ Len(seq) = NPts
    /\ \E k \in 0 .. (NPts - 1) :
          \A i \in 1 .. NPts : seq[i] = SortedEdges[((i - 1 + k) % NPts) + 1]

(***************************************************************************)
(* C5  Order preservation: insert_first on one point and insert on every   *)
(* other point, in any order, all return and leave every point live, and   *)
(* values() then yields the edges in the cyclic sequence of the order      *)
(* ranks, whatever the insertion order was.                                *)
(* The code does not: an insertion order in which a point follows only     *)
(* lower points of its own bucket never gets past that insert (C2).        *)
(***************************************************************************)
C5_OrderPreserved ==
    /\ status = "ok"
    /\ (last.op = "values" /\ Live = Points) => IsRotationOfSorted(last.ret)

\* what does hold: when every insert has returned, values() is in order
C5_OrderedWhenBuilt ==
    (status = "ok" /\ last.op = "values" /\ Live = Points) =>
        IsRotationOfSorted(last.ret)

C5_AllBuilt == status = "ok" /\ last.op = "values" /\ Live = Points

\* the prev and next of every point
Links(d) == [p \in Points |-> <<d[p].prev, d[p].next>>]

(***************************************************************************)
(* C6  Insert/erase round trip: while some point is live, an insert(p, e)  *)
(* of a point that is not live, followed at once by erase(p), leaves the   *)
(* prev and next of every point (and so the set of live points) as they    *)
(* were before the insert.                                                 *)
(***************************************************************************)
C6_RoundTrip ==
    [][(last'.op = "insert" /\ status' = "ok" /\ Live # {}) =>
          LET r == erase(Self', last'.p) IN
          /\ r.st = "ok"
          /\ Links(r.data) = Links(data)]_vars

\* C6 is seen at work: an insert into a cycle has made p its bucket's head
C6_Witness ==
    /\ status = "ok"
    /\ last.op = "insert"
    /\ Cardinality(Live) >= 3
    /\ buckets[bucket(Self, last.p)] = last.p
    /\ erase(Self, last.p).st = "ok"

(***************************************************************************)
(* C7  Bucket entries are live: after insert_first and any insert/erase    *)
(* calls on points in the required liveness state, every bucket entry that *)
(* is not EMPTY is a live point whose bucket is that entry's index.        *)
(* The code does not: erasing the only live point p leaves p as the entry  *)
(* of its bucket, because p's next is p itself and so "in the same         *)
(* bucket".                                                                *)
(***************************************************************************)
C7_BucketEntriesLive ==
    status = "ok" =>
        \A b \in DOMAIN buckets :
            buckets[b] # EMPTY =>
                /\ buckets[b] \in Live
                /\ bucket(Self, buckets[b]) = b

\* what does hold: the entries are right as long as some point is live
C7_BucketEntriesLiveWhileSomeLive ==
    (status = "ok" /\ Live # {}) =>
        \A b \in DOMAIN buckets :
            buckets[b] # EMPTY =>
                /\ buckets[b] \in Live
                /\ bucket(Self, buckets[b]) = b

(***************************************************************************)
(* C8  insert_first is a one-time bootstrap: it returns only on a hull     *)
(* without live points, where it makes p a singleton cycle, stores e and   *)
(* makes p the entry of its bucket; on a hull that has a live point it is  *)
(* a fatal error, for any p.                                               *)
(* The code does not: its assertion looks at p's bucket only, so a second  *)
(* insert_first on a point of another bucket returns and leaves two        *)
(* cycles.                                                                 *)
(***************************************************************************)
C8_BootstrapOnce ==
    (last.op = "insert_first" /\ status = "ok") =>
        /\ Live = {last.p}
        /\ data[last.p].next = last.p
        /\ data[last.p].prev = last.p
        /\ data[last.p].edge = last.e
        /\ buckets[bucket(Self, last.p)] = last.p

\* what does hold: insert_first is fatal exactly when p's bucket has an entry
C8_FatalOnFullBucket ==
    [][last'.op = "insert_first" =>
          /\ (status' = "panic") <=> (buckets[bucket(Self, last'.p)] # EMPTY)
          /\ status' = "panic" => (buckets' = buckets /\ data' = data)
          /\ status' = "ok" =>
                /\ data'[last'.p].next = last'.p
                /\ data'[last'.p].prev = last'.p
                /\ data'[last'.p].edge = last'.e
                /\ buckets'[bucket(Self, last'.p)] = last'.p]_vars

(***************************************************************************)
(* C9  insert(p, e) on a live point p is a fatal error raised by the first *)
(* statement of insert: the call panics and no node field and no bucket    *)
(* entry has been written.                                                 *)
(***************************************************************************)
C9_InsertLiveIsFatal ==
    [][(last'.op = "insert" /\ last'.p \in Live) =>
          /\ status' = "panic"
          /\ buckets' = buckets
          /\ data' = data]_vars

\* C9 is seen at work: an insert of a point of an intact cycle has panicked
C9_Witness ==
    /\ last.op = "insert"
    /\ status = "panic"
    /\ misused
    /\ Cardinality(Live) >= 2
    /\ last.p \in Live
    /\ \A x \in Live : data[x].next \in Live /\ data[data[x].next].prev = x

(***************************************************************************)
(* C10  update(p, e) on a live point changes p's edge and nothing else:    *)
(* afterwards edge(p) returns e, and the order, prev and next of every     *)
(* point, the edge of every other point and every bucket entry are as      *)
(* before.                                                                 *)
(***************************************************************************)
C10_UpdateFrame ==
    [][(last'.op = "update" /\ last'.p \in Live) =>
          /\ status' = "ok"
          /\ edge(Self', last'.p) = [st |-> "ok", ret |-> <<last'.e>>]
          /\ buckets' = buckets
          /\ \A q \in Points :
                /\ data'[q].order = data[q].order
                /\ data'[q].prev = data[q].prev
                /\ data'[q].next = data[q].next
                /\ q # last'.p => data'[q].edge = data[q].edge]_vars

\* C10 is seen at work: an update has changed the edge of one of several
\* live points
C10_Witness ==
    /\ last.op = "update"
    /\ status = "ok"
    /\ Cardinality(Live) >= 2
    /\ data[last.p].edge = last.e
    /\ \E q \in Live : data[q].edge # last.e

\* the calls that store an edge handle for their point
Stores == {"insert_first", "insert", "update"}

(***************************************************************************)
(* C11  Liveness guard on edge access: edge(p) and update(p, e) are a      *)
(* fatal error that changes nothing exactly when p is not live; for a live *)
(* p, edge(p) returns the edge field of p, and that field is the handle    *)
(* stored last for p: a step changes the edge field of a point only if it  *)
(* is an insert_first, insert or update of that point, which leaves the    *)
(* handle it was given.                                                    *)
(***************************************************************************)
C11_EdgeGuard ==
    [][/\ last'.op \in {"edge", "update"} =>
             /\ (status' = "panic") <=> (last'.p \notin Live)
             /\ status' = "panic" => (buckets' = buckets /\ data' = data)
       /\ (last'.op = "edge" /\ last'.p \in Live) =>
             /\ status' = "ok"
             /\ last'.ret = <<data[last'.p].edge>>
       /\ (last'.op \in Stores /\ status' = "ok") =>
             data'[last'.p].edge = last'.e
       /\ \A q \in Points :
             data'[q].edge # data[q].edge =>
                 /\ last'.op \in Stores
                 /\ last'.p = q
                 /\ data'[q].edge = last'.e]_vars

\* C11 is seen at work: edge(p) has panicked on a point that was erased
C11_Witness ==
    /\ last.op = "edge"
    /\ status = "panic"
    /\ last.p \notin Live
    /\ data[last.p].edge # DefaultEdge
    /\ Live # {}

\* the edges of the points of a path
EdgesOf(path) == [i \in 1 .. Len(path) |-> data[path[i]].edge]

(***************************************************************************)
(* C12  Iteration: while some point is live, values() ends and yields the  *)
(* edge of every live point exactly once, |Live| handles in all, in the    *)
(* order of the next links from some live point, which is increasing order *)
(* rank round the cycle; it leaves the hull alone, so that a second call   *)
(* yields the same sequence.                                               *)
(***************************************************************************)
C12_Iteration ==
    [][(last'.op = "values" /\ Live # {}) =>
          /\ status' = "ok"
          /\ buckets' = buckets
          /\ data' = data
          /\ values(Self') = [st |-> "ok", ret |-> last'.ret]
          /\ \E s \in Live :
                LET n    == Cardinality(Live)
                    path == NextPath(s, n)
                IN  /\ Len(path) = n
                    /\ {path[i] : i \in 1 .. n} = Live
                    /\ last'.ret = EdgesOf(path)
                    /\ \A i \in 1 .. (n - 1) :
                          \/ order(path[i]) < order(path[i + 1])
                          \/ /\ path[i] = HighestLive
                             /\ path[i + 1] = LowestLive]_vars

\* C12 is seen at work: values() has run over three live points whose
\* edges are not all the same
C12_Witness ==
    /\ last.op = "values"
    /\ status = "ok"
    /\ Cardinality(Live) >= 3
    /\ Len(last.ret) = Cardinality(Live)
    /\ \E i, j \in 1 .. Len(last.ret) : last.ret[i] # last.ret[j]

(***************************************************************************)
(* C13  Lifecycle: a point that is not live has prev = next = EMPTY and is *)
(* no live point's prev or next; an insert(p, e2) of a point that was      *)
(* live before and has been erased, made while another point is live,      *)
(* returns and leaves p live with edge e2 between the live points that     *)
(* bracket its order.                                                      *)
(* The code does not: the re-insert never returns when every point still   *)
(* live is in p's bucket below p (C2).                                     *)
(***************************************************************************)
C13_Lifecycle ==
    /\ status = "ok" =>
          \A p \in Points \ Live :
              /\ data[p].prev = EMPTY
              /\ \A x \in Live : data[x].next # p /\ data[x].prev # p
    /\ (/\ last.op = "insert"
        /\ data[last.p].edge # DefaultEdge
        /\ Live \ {last.p} # {}) =>
          /\ status = "ok"
          /\ last.p \in Live
          /\ data[last.p].edge = last.e
          /\ data[last.p].next = LiveAfter(order(last.p))
          /\ data[last.p].prev = LiveBefore(order(last.p))

\* what does hold: only insert_first and insert of p make p live, only
\* erase of p ends it, and a call that returns leaves the dead unlinked
C13_BornAndRemoved ==
    [][status' = "ok" =>
          /\ \A p \in Points :
                /\ (p \notin Live /\ p \in Live') =>
                      (last'.op \in {"insert_first", "insert"} /\ last'.p = p)
                /\ (p \in Live /\ p \notin Live') =>
                      (last'.op = "erase" /\ last'.p = p)
          /\ \A p \in Points \ Live' :
                /\ data'[p].prev = EMPTY
                /\ \A x \in Live' : data'[x].next # p /\ data'[x].prev # p]_vars

\* the live points of bucket b
LiveIn(b) == {p \in Live : bucket(Self, p) = b}

\* the live point of lowest order in bucket b
LowestIn(b) == CHOOSE m \in LiveIn(b) : \A q \in LiveIn(b) : order(m) <= order(q)

\* every bucket's entry is its lowest live point, or EMPTY if it has none
HeadsAreLowest ==
    \A b \in DOMAIN buckets :
        IF LiveIn(b) = {} THEN buckets[b] = EMPTY ELSE buckets[b] = LowestIn(b)

(***************************************************************************)
(* C14  Bucket head invariant: while some point is live, the entry of a    *)
(* bucket is EMPTY exactly when no live point is in that bucket, and is    *)
(* otherwise the bucket's live point of lowest order; so an insert(p, e)   *)
(* that returns makes p the entry of its bucket exactly when p is then the *)
(* lowest live point of the bucket, and leaves the entry as it was         *)
(* otherwise.                                                              *)
(***************************************************************************)
C14_BucketHeads ==
    (status = "ok" /\ Live # {}) =>
        /\ HeadsAreLowest
        /\ last.op = "insert" =>
              (buckets[bucket(Self, last.p)] = last.p)
                  <=> (\A q \in LiveIn(bucket(Self, last.p)) :
                          order(last.p) <= order(q))

\* C14 is seen at work: an insert below the head of a bucket
C14_Witness ==
    /\ status = "ok"
    /\ last.op = "insert"
    /\ Cardinality(LiveIn(bucket(Self, last.p))) >= 2
    /\ buckets[bucket(Self, last.p)] = last.p

\* and an insert above the head of a bucket
C14_WitnessAbove ==
    /\ status = "ok"
    /\ last.op = "insert"
    /\ Cardinality(LiveIn(bucket(Self, last.p))) >= 2
    /\ buckets[bucket(Self, last.p)] # last.p

\* every bucket that holds a live point has a live point of it as its entry
HeadsAreMembers ==
    \A b \in DOMAIN buckets :
        IF LiveIn(b) = {} THEN buckets[b] = EMPTY ELSE buckets[b] \in LiveIn(b)

\* the live points form one cycle sorted by order
SortedCycle ==
    \A x \in Live :
        /\ data[x].next = LiveAfter(order(x))
        /\ data[x].prev = LiveBefore(order(x))

WritesOnly(p, prev, next) ==
    /\ \A q \in Points :
          /\ data'[q].order = data[q].order
          /\ q # p => data'[q].edge = data[q].edge
          /\ q \notin {p, next} => data'[q].prev = data[q].prev
          /\ q \notin {p, prev} => data'[q].next = data[q].next
    /\ \A b \in DOMAIN buckets : b # bucket(Self, p) => buckets'[b] = buckets[b]
    /\ DOMAIN buckets' = DOMAIN buckets
    /\ Live' \ {p} = Live \ {p}

(***************************************************************************)
(* C16  Locality of mutation: insert(p, e) writes only the node of p, the  *)
(* next field of the located prev, the prev field of the located next and  *)
(* at most buckets[bucket(p)]; erase(p) writes only p's prev and next, the *)
(* next field of p's former prev, the prev field of p's former next and at *)
(* most buckets[bucket(p)].  Every other node field, every order, every    *)
(* other bucket entry and the liveness of every other point are unchanged. *)
(***************************************************************************)
C16_Locality ==
    [][/\ last'.op = "insert" =>
             LET g == get(Self, last'.p) IN
             IF g.st = "ok"
             THEN WritesOnly(last'.p, g.prev, g.next)
             ELSE data' = data /\ buckets' = buckets
       /\ last'.op = "erase" =>
             /\ WritesOnly(last'.p, data[last'.p].prev, data[last'.p].next)
             /\ data'[last'.p].edge = data[last'.p].edge]_vars

\* C16 is seen at work: an erase of one of three live points has returned and
\* has kept the erased point's edge handle
C16_Witness ==
    /\ last.op = "erase"
    /\ status = "ok"
    /\ Cardinality(Live) >= 2
    /\ data[last.p].edge # DefaultEdge

(***************************************************************************)
(* C17  get_edge result: in every reachable state with at least one live   *)
(* point and for every point p that is not live, get_edge(p) returns the   *)
(* edge stored for the live point with the highest order below p's order,  *)
(* or for the highest live point when none is below; it equals             *)
(* edge(get(p).0) and does not modify the hull.  The code does not always  *)
(* return: get_edge calls get, which can circle for ever (C2).             *)
(***************************************************************************)
C17_GetEdgeResult ==
    (status = "ok" /\ Live # {}) =>
        \A p \in Points \ Live :
            /\ get_edge(Self, p) =
                   [st |-> "ok", ret |-> <<data[LiveBefore(order(p))].edge>>]
            /\ get(Self, p).st = "ok"
            /\ get_edge(Self, p) = edge(Self, get(Self, p).prev)

\* What does hold of get_edge: whenever it returns, it returns the edge of
\* the live point just below p (the highest when none is below), which is
\* edge(get(p).0), and the call leaves the hull as it was.
C17_GetEdgeResultIfReturns ==
    [][(last'.op = "get_edge" /\ status' = "ok") =>
           /\ last'.p \notin Live /\ Live # {}
           /\ last'.ret = <<data[LiveBefore(order(last'.p))].edge>>
           /\ get(Self, last'.p).st = "ok"
           /\ edge(Self, get(Self, last'.p).prev) = [st |-> "ok", ret |-> last'.ret]
           /\ data' = data /\ buckets' = buckets]_vars

(***************************************************************************)
(* C18  Bucket assignment: over T = NPts points and B = N buckets,         *)
(* bucket(p) = (order(p) * B) / T in integer division; it lies in 0..B-1,  *)
(* a valid index into the bucket array; and order(p) <= order(q) implies   *)
(* bucket(p) <= bucket(q).                                                 *)
(***************************************************************************)
C18_BucketAssignment ==
    /\ DOMAIN buckets = 0 .. (N - 1)
    /\ \A p \in Points :
          /\ order(p) \in 0 .. (NPts - 1)
          /\ bucket(Self, p) \in DOMAIN buckets
          /\ bucket(Self, p) * NPts <= order(p) * N
          /\ order(p) * N < (bucket(Self, p) + 1) * NPts
    /\ \A p, q \in Points :
          order(p) <= order(q) => bucket(Self, p) <= bucket(Self, q)

\* C18 is seen at work: an insert has filed a point under a later bucket
\* than a lower live point's
C18_Witness ==
    /\ last.op = "insert"
    /\ status = "ok"
    /\ buckets[bucket(Self, last.p)] = last.p
    /\ \E q \in Live : /\ order(q) < order(last.p)
                       /\ bucket(Self, q) < bucket(Self, last.p)

(***************************************************************************)
(* C19  Iteration start point: in every reachable state with at least one  *)
(* live point, values() starts at the entry of the lowest-index non-empty  *)
(* bucket, which is the lowest-order live point of the whole hull, so the  *)
(* sequence it yields runs over the live points in strictly increasing     *)
(* order from first to last, with no wraparound inside it.                 *)
(***************************************************************************)
C19_IterationStart ==
    (status = "ok" /\ Live # {}) =>
        LET n    == Cardinality(Live)
            path == NextPath(first_bucket(Self), n)
        IN  /\ first_bucket(Self) = LowestLive
            /\ Len(path) = n
            /\ \A i \in 1 .. (n - 1) : order(path[i]) < order(path[i + 1])
            /\ path[n] = HighestLive
            /\ values(Self) = [st |-> "ok", ret |-> EdgesOf(path)]
            /\ last.op = "values" => last.ret = EdgesOf(path)

\* C19 is seen at work: values() has run over a hull whose lowest live point
\* was inserted after a higher one and is not the hull's lowest point
C19_Witness ==
    /\ last.op = "values"
    /\ status = "ok"
    /\ Cardinality(Live) >= 2
    /\ order(LowestLive) > 0
    /\ Len(last.ret) = Cardinality(Live)
    /\ last.ret[1] = data[LowestLive].edge
    /\ last.ret[1] # last.ret[Len(last.ret)]

(***************************************************************************)
(* C20  Erase of a non-live point: erase(p) on a point whose prev and next *)
(* are EMPTY (never inserted, or already erased) aborts on the first node  *)
(* write, which indexes the node array with EMPTY, and leaves every node   *)
(* field and every bucket entry unchanged; it never returns and never      *)
(* relinks other points.                                                   *)
(***************************************************************************)
C20_EraseNonLive ==
    [][(last'.op = "erase" /\ last'.p \notin Live) =>
           /\ data[last'.p].next = EMPTY
           /\ data[last'.p].prev = EMPTY
           /\ erase_unlink(data, last'.p, EMPTY, EMPTY) = [st |-> "panic", data |-> data]
           /\ status' = "panic"
           /\ data' = data
           /\ buckets' = buckets]_vars

\* C20 is seen at work: erase has aborted on a point that was erased before,
\* while other points are live
C20_Witness ==
    /\ last.op = "erase"
    /\ status = "panic"
    /\ last.p \notin Live
    /\ data[last.p].edge # DefaultEdge
    /\ Live # {}

====
